---- MODULE Spec2Model ----
(***************************************************************************)
(* Skin-cancer-Analyzer: the model repair utility (fix_model.py) and the    *)
(* Streamlit dashboard (app.py) as state machines.                          *)
(*                                                                          *)
(*   Spec        one run of fix_model.main()                                *)
(*   ConvSpec    the 5-D -> 4-D kernel conversion on bounded tensors        *)
(*   PredSpec    predict_skin_lesion's post-processing and the headline     *)
(*   DashSpec    the dashboard: script reruns over process-wide caches      *)
(***************************************************************************)
EXTENDS Integers, Sequences, FiniteSets, TLC

VARIABLES
    \* ---- fix_model.main() ----
    pc,               \* position of main()
    h5file,           \* ./models/model.h5 as found on disk (input)
    weights,          \* main's `weights`: "unset", "None" or the extracted dict
    model,            \* main's `model`: "unset" or the rebuilt model
    test_passes,      \* whether model.predict succeeds in test_model (environment)
    out,              \* messages printed by the run
    fs_writes,        \* files written by the run, in order
    \* ---- conversion step alone ----
    cv,
    \* ---- prediction post-processing alone ----
    pv,
    \* ---- dashboard ----
    page, checkbox, uploaded_file, modelFile, sampleFile,
    cache, shown, req, disk

vars == <<pc, h5file, weights, model, test_passes, out, fs_writes, cv, pv,
          page, checkbox, uploaded_file, modelFile, sampleFile,
          cache, shown, req, disk>>

repairVars == <<pc, h5file, weights, model, test_passes, out, fs_writes>>
dashVars == <<page, checkbox, uploaded_file, modelFile, sampleFile,
              cache, shown, req, disk>>

IdleRepair ==
    /\ pc = "idle" /\ h5file = [exists |-> FALSE]
    /\ weights = [kind |-> "unset"] /\ model = [status |-> "unset"]
    /\ test_passes = FALSE /\ out = <<>> /\ fs_writes = <<>>

IdleConv == cv = [step |-> "idle"]

IdlePred == pv = [step |-> "idle"]

IdleDash ==
    /\ page = "idle" /\ checkbox = FALSE /\ uploaded_file = "None"
    /\ modelFile = "missing" /\ sampleFile = "missing"
    /\ cache = [idle |-> TRUE] /\ shown = {} /\ req = [idle |-> TRUE]
    /\ disk = [idle |-> TRUE]

(***************************************************************************)
(* Bounds                                                                   *)
(***************************************************************************)
MaxDepth == 4      \* depth of a 5-D kernel in ConvSpec
MaxDim == 2        \* h, w, in, out of a kernel in ConvSpec
MaxNodes == 3      \* nodes of model.h5 drawn from the catalogue
MaxRaw == 3        \* a model output is 5 * k / 100000 for k in 0..MaxRaw (PredSpec)

(***************************************************************************)
(* Sequences helpers                                                        *)
(***************************************************************************)
RECURSIVE Prod(_)
Prod(s) == IF s = <<>> THEN 1 ELSE Head(s) * Prod(Tail(s))

\* str.__contains__: frag occurs as a contiguous run of name
Contains(frag, name) ==
    \E i \in 0..(Len(name) - Len(frag)) :
        SubSeq(name, i + 1, i + Len(frag)) = frag

(***************************************************************************)
(* numpy arrays.  An array is a C-contiguous view: a shape, the buffer it   *)
(* reads (base) and the offset of its first element in that buffer.        *)
(***************************************************************************)
RECURSIVE FlatIndex(_, _)
FlatIndex(shape, idx) ==
    IF shape = <<>> THEN 0
    ELSE Head(idx) * Prod(Tail(shape)) + FlatIndex(Tail(shape), Tail(idx))

\* element of array t at the 0-based index tuple idx
At(t, idx) == <<t.base, t.off + FlatIndex(t.shape, idx)>>

ndim(t) == Len(t.shape)

RECURSIVE MaxOf(_)
MaxOf(s) ==
    IF s = <<>> THEN 0
    ELSE LET m == MaxOf(Tail(s)) IN IF Head(s) > m THEN Head(s) ELSE m

\* all 0-based index tuples of an array of the given shape
Indices(shape) ==
    {idx \in [1..Len(shape) -> 0..(MaxOf(shape) - 1)] :
        \A a \in 1..Len(shape) : idx[a] < shape[a]}

\* t[k, :, ..., :]: basic indexing of the first axis; a view of the same
\* buffer, or IndexError when k is out of bounds for axis 0
IndexFirstAxis(t, k) ==
    IF k >= t.shape[1] THEN [exc |-> "IndexError"]
    ELSE [exc   |-> "none",
          shape |-> Tail(t.shape),
          base  |-> t.base,
          off   |-> t.off + k * Prod(Tail(t.shape))]

ConvertKernel_first(raw_weights) == IndexFirstAxis(raw_weights, 0)

\* converted = raw_weights[1, :, :, :, :]
ConvertKernel(raw_weights) == IndexFirstAxis(raw_weights, 1)

\* The ndim dispatch applied to a name-matched tensor: what is handed to
\* set_weights.  5-D: the converted kernel; 4-D: the tensor itself; any
\* other rank: neither branch is taken and the tensor is passed over.
PrepareWeights(raw_weights) ==
    IF ndim(raw_weights) = 5 THEN
        LET converted == ConvertKernel(raw_weights) IN
        IF converted.exc = "IndexError"
            THEN [kind |-> "IndexError"]
            ELSE [kind |-> "converted",
                  value |-> [shape |-> converted.shape, base |-> converted.base,
                             off |-> converted.off]]
    ELSE IF ndim(raw_weights) = 4 THEN [kind |-> "direct", value |-> raw_weights]
    ELSE [kind |-> "skipped"]

(***************************************************************************)
(* Names.  A Python str is a sequence of one-character strings, so that     *)
(* `in` and lower() are computed, not assumed.                              *)
(***************************************************************************)
s_conv3d == <<"c", "o", "n", "v", "3", "d">>
s_conv2d == <<"c", "o", "n", "v", "2", "d">>
s_dense == <<"d", "e", "n", "s", "e">>
s_output == <<"o", "u", "t", "p", "u", "t">>
s_max_pool == <<"m", "a", "x", "_", "p", "o", "o", "l">>
s_flatten == <<"f", "l", "a", "t", "t", "e", "n">>
s_dropout == <<"d", "r", "o", "p", "o", "u", "t">>
s_kernel == <<"/", "k", "e", "r", "n", "e", "l", ":", "0">>
s_bias == <<"/", "b", "i", "a", "s", ":", "0">>
s_iter == <<"o", "p", "t", "i", "m", "i", "z", "e", "r", "/", "i", "t", "e", "r", ":", "0">>
s_Conv3D == <<"C", "o", "n", "v", "3", "D">>

\* name_<digit>
Num(name, digit) == name \o <<"_", digit>>

\* str.lower() on the alphabet the names use
LowerChar(c) ==
    CASE c = "C" -> "c"
      [] c = "D" -> "d"
      [] OTHER -> c

Lower(name) == [i \in 1..Len(name) |-> LowerChar(name[i])]

(***************************************************************************)
(* The rebuilt architecture: model.layers in order, each with the shape of  *)
(* the kernel its constructor gives it (weighted: whether it has weights).   *)
(***************************************************************************)
Layers == <<
    [name |-> Num(s_conv2d, "1"),   weighted |-> TRUE, kernel |-> <<3, 3, 3, 32>>],
    [name |-> Num(s_max_pool, "1"), weighted |-> FALSE, kernel |-> <<>>],
    [name |-> Num(s_conv2d, "2"),   weighted |-> TRUE, kernel |-> <<3, 3, 32, 64>>],
    [name |-> Num(s_max_pool, "2"), weighted |-> FALSE, kernel |-> <<>>],
    [name |-> Num(s_conv2d, "3"),   weighted |-> TRUE, kernel |-> <<3, 3, 64, 128>>],
    [name |-> Num(s_max_pool, "3"), weighted |-> FALSE, kernel |-> <<>>],
    [name |-> s_flatten,            weighted |-> FALSE, kernel |-> <<>>],
    [name |-> Num(s_dense, "1"),    weighted |-> TRUE, kernel |-> <<13824, 256>>],
    [name |-> Num(s_dropout, "1"),  weighted |-> FALSE, kernel |-> <<>>],
    [name |-> Num(s_dense, "2"),    weighted |-> TRUE, kernel |-> <<256, 128>>],
    [name |-> Num(s_dropout, "2"),  weighted |-> FALSE, kernel |-> <<>>],
    [name |-> s_output,             weighted |-> TRUE, kernel |-> <<128, 7>>] >>

LayerIds == 1..Len(Layers)

\* layer_mapping.get(layer_name, [layer_name])
layer_mapping(layer_name) ==
    CASE layer_name = Num(s_conv2d, "1") ->
            <<s_conv3d, Num(s_conv3d, "1"), Num(s_conv3d, "2")>>
      [] layer_name = Num(s_conv2d, "2") ->
            <<Num(s_conv3d, "3"), Num(s_conv3d, "4")>>
      [] layer_name = Num(s_conv2d, "3") ->
            <<Num(s_conv3d, "5"), Num(s_conv3d, "6")>>
      [] layer_name = Num(s_dense, "1") ->
            <<s_dense, Num(s_dense, "1"), Num(s_dense, "2")>>
      [] layer_name = Num(s_dense, "2") ->
            <<Num(s_dense, "3"), Num(s_dense, "4")>>
      [] layer_name = s_output ->
            <<Num(s_dense, "5"), Num(s_dense, "6"), s_output>>
      [] OTHER -> <<layer_name>>

\* layer.set_weights([w]) returns normally iff w has the shape of the
\* layer's kernel; otherwise it raises ValueError
SetWeightsOK(layer, w) ==
    /\ Layers[layer].weighted
    /\ w.shape = Layers[layer].kernel

\* possible_name in weight_key.lower()
Matches(possible_name, weight_key) == Contains(possible_name, Lower(weight_key))

(***************************************************************************)
(* rebuild_model_with_weights.  weights_dict is the dict in insertion       *)
(* order: a sequence of [name, value].  The result records the layers'      *)
(* weights, weights_injected, what was printed and every set_weights call,  *)
(* and how the function ended: "returned", or the exception that left it.   *)
(***************************************************************************)
Ev(kind, layer) == [ev |-> kind, layer |-> layer]

\* a layer's freshly initialized (random) weights
InitWeights == [init |-> TRUE]

NoValue == [none |-> TRUE]

\* for weight_key in weights_dict.keys(): ... from the k-th key on
RECURSIVE SearchKeys(_, _, _, _, _)
SearchKeys(layer, possible_name, weights_dict, k, log) ==
    IF k > Len(weights_dict)
    THEN [outcome |-> "exhausted", value |-> NoValue, key |-> 0, log |-> log]
    ELSE
    LET weight_key == weights_dict[k].name
        raw_weights == weights_dict[k].value
        w == PrepareWeights(raw_weights)
    IN
    IF ~Matches(possible_name, weight_key)
    THEN SearchKeys(layer, possible_name, weights_dict, k + 1, log)
    ELSE IF ndim(raw_weights) = 5 THEN
        LET log1 == Append(log, Ev("converting", layer)) IN
        IF w.kind = "IndexError"
        THEN [outcome |-> "IndexError", value |-> NoValue, key |-> k, log |-> log1]
        ELSE IF SetWeightsOK(layer, w.value)
        THEN [outcome |-> "injected", value |-> w.value, key |-> k,
              log |-> log1 \o <<Ev("set_weights", layer),
                                Ev("injected_converted", layer)>>]
        ELSE [outcome |-> "ValueError", value |-> NoValue, key |-> k,
              log |-> Append(log1, Ev("set_weights_rejected", layer))]
    ELSE IF ndim(raw_weights) = 4 THEN
        IF SetWeightsOK(layer, w.value)
        THEN [outcome |-> "injected", value |-> w.value, key |-> k,
              log |-> log \o <<Ev("set_weights", layer),
                               Ev("injected_direct", layer)>>]
        ELSE SearchKeys(layer, possible_name, weights_dict, k + 1,
                        log \o <<Ev("set_weights_rejected", layer),
                                 Ev("incompatible", layer)>>)
    ELSE SearchKeys(layer, possible_name, weights_dict, k + 1, log)

ReportNotFound_silent(layer, log) == log

\* if not found: print(... "pesos não encontrados (inicializando aleatoriamente)")
ReportNotFound(layer, log) == Append(log, Ev("not_found", layer))

\* for possible_name in layer_mapping.get(...): ... from the c-th candidate on,
\* then the `if not found` report
RECURSIVE SearchCandidates(_, _, _, _)
SearchCandidates(layer, weights_dict, c, log) ==
    LET candidates == layer_mapping(Layers[layer].name) IN
    IF c > Len(candidates)
    THEN [outcome |-> "not_found", value |-> NoValue, key |-> 0,
          log |-> ReportNotFound(layer, log)]
    ELSE
    LET r == SearchKeys(layer, candidates[c], weights_dict, 1, log) IN
    IF r.outcome = "exhausted"
    THEN SearchCandidates(layer, weights_dict, c + 1, r.log)
    ELSE r

\* for layer in model.layers: ... from the i-th layer on (every Keras layer
\* has get_weights), then the summary line
RECURSIVE RebuildLayers(_, _, _)
RebuildLayers(i, weights_dict, st) ==
    IF i > Len(Layers)
    THEN [st EXCEPT !.status = "returned",
                    !.log = Append(st.log, [ev |-> "summary",
                                            layer |-> st.weights_injected])]
    ELSE
    LET r == SearchCandidates(i, weights_dict, 1, st.log) IN
    IF r.outcome = "injected"
    THEN RebuildLayers(i + 1, weights_dict,
             [st EXCEPT !.layer_weights[i] = r.value,
                        !.source[i] = r.key,
                        !.weights_injected = st.weights_injected + 1,
                        !.log = r.log])
    ELSE IF r.outcome = "not_found"
    THEN RebuildLayers(i + 1, weights_dict, [st EXCEPT !.log = r.log])
    ELSE [st EXCEPT !.status = r.outcome, !.log = r.log]

rebuild_model_with_weights(weights_dict) ==
    RebuildLayers(1, weights_dict,
        [status |-> "running",
         layer_weights |-> [i \in LayerIds |-> InitWeights],
         source |-> [i \in LayerIds |-> 0],
         weights_injected |-> 0,
         log |-> <<>>])

(***************************************************************************)
(* extract_weights_from_corrupted_h5.  The file is its nodes in visititems  *)
(* order; fail_at is where h5py raises: 0 on opening the file, k on reading *)
(* the k-th node, -1 never.  The result is None or the dict.                *)
(***************************************************************************)
RECURSIVE VisitItems(_, _, _)
VisitItems(f, k, acc) ==
    IF f.fail_at = 0 THEN [kind |-> "None"]
    ELSE IF k > Len(f.nodes) THEN [kind |-> "dict", items |-> acc]
    ELSE IF f.fail_at = k THEN [kind |-> "None"]
    ELSE IF f.nodes[k].kind = "dataset"
    THEN VisitItems(f, k + 1,
             Append(acc, [name |-> f.nodes[k].name,
                          value |-> [shape |-> f.nodes[k].shape,
                                     base |-> f.nodes[k].name,
                                     off |-> 0]]))
    ELSE VisitItems(f, k + 1, acc)

\* what keras.models.load_model does and this function does not: give up on
\* a file whose model_config attribute cannot be parsed
extract_weights_honouring_config(f) ==
    IF f.model_config = "corrupt" THEN [kind |-> "None"]
    ELSE VisitItems(f, 1, <<>>)

extract_weights_from_corrupted_h5(f) == VisitItems(f, 1, <<>>)

\* the file on disk once h5py.File(h5_path, mode) has been entered and left:
\* mode 'w' truncates it
h5py_File_w(f) == IF f.fail_at = 0 THEN f ELSE [f EXCEPT !.nodes = <<>>]

\* mode 'r' leaves it as it was
h5py_File(f) == f

(***************************************************************************)
(* The input files                                                          *)
(***************************************************************************)
Node(name, kind, shape) == [name |-> name, kind |-> kind, shape |-> shape]

\* nodes a damaged Conv3D export may hold, in visititems (path) order
Catalogue == <<
    Node(Num(s_Conv3D, "4") \o s_kernel, "dataset", <<3, 3, 32, 64>>),
    Node(s_conv3d,                        "group",   <<>>),
    Node(s_conv3d \o s_kernel,            "dataset", <<3, 3, 3, 3, 32>>),
    Node(Num(s_conv3d, "3") \o s_kernel,  "dataset", <<3, 3, 3, 32, 64>>),
    Node(Num(s_conv3d, "5") \o s_kernel,  "dataset", <<1, 3, 3, 64, 128>>),
    Node(Num(s_conv3d, "6") \o s_kernel,  "dataset", <<5, 3, 3, 64, 128>>),
    Node(Num(s_dense, "3") \o s_bias,     "dataset", <<128>>),
    Node(Num(s_dense, "3") \o s_kernel,   "dataset", <<256, 128>>),
    Node(s_iter,                          "dataset", <<>>),
    Node(s_output \o s_kernel,            "dataset", <<128, 7>>) >>

RECURSIVE SubCatalogue(_, _)
SubCatalogue(S, k) ==
    IF k > Len(Catalogue) THEN <<>>
    ELSE (IF k \in S THEN <<Catalogue[k]>> ELSE <<>>) \o SubCatalogue(S, k + 1)

H5Files ==
    {[exists |-> FALSE]} \cup
    {[exists |-> TRUE, nodes |-> SubCatalogue(S, 1), fail_at |-> f,
      model_config |-> c] :
        S \in {T \in SUBSET (1..Len(Catalogue)) : Cardinality(T) <= MaxNodes},
        f \in -1..MaxNodes,
        c \in {"valid", "corrupt"}}

(***************************************************************************)
(* fix_model.main()                                                         *)
(***************************************************************************)
\* model.predict on a random (1, 75, 100, 3) input: True, or False when it
\* raises
test_model_always(m) == TRUE

test_model(m) == test_passes

Init ==
    /\ pc = "start"
    /\ h5file \in H5Files
    /\ weights = [kind |-> "unset"]
    /\ model = [status |-> "unset"]
    /\ test_passes \in BOOLEAN
    /\ out = <<>>
    /\ fs_writes = <<>>
    /\ IdleConv /\ IdlePred /\ IdleDash

\* if not os.path.exists(h5_path): ... return
MainCheckPath ==
    /\ pc = "start"
    /\ IF ~h5file.exists
       THEN /\ out' = Append(out, "file not found")
            /\ pc' = "done"
       ELSE /\ out' = Append(out, "banner")
            /\ pc' = "extract"
    /\ UNCHANGED <<h5file, weights, model, test_passes, fs_writes, cv, pv, dashVars>>

\* weights = extract_weights_from_corrupted_h5(h5_path); if weights is None: return
MainExtract ==
    /\ pc = "extract"
    /\ weights' = extract_weights_from_corrupted_h5(h5file)
    /\ h5file' = h5py_File(h5file)
    /\ IF weights'.kind = "None"
       THEN /\ out' = out \o <<"extraction error", "extraction failed, aborting">>
            /\ pc' = "done"
       ELSE /\ out' = Append(out, "extracted")
            /\ pc' = "rebuild"
    /\ UNCHANGED <<model, test_passes, fs_writes, cv, pv, dashVars>>

\* model = rebuild_model_with_weights(weights); an exception leaving it is
\* uncaught in main and ends the run
MainRebuild ==
    /\ pc = "rebuild"
    /\ model' = rebuild_model_with_weights(weights.items)
    /\ pc' = IF model'.status = "returned" THEN "test" ELSE "crashed"
    /\ out' = IF model'.status = "returned" THEN Append(out, "rebuilt")
                                             ELSE Append(out, "traceback")
    /\ UNCHANGED <<h5file, weights, test_passes, fs_writes, cv, pv, dashVars>>

\* if test_model(model): continue to the save; else: report
MainTest ==
    /\ pc = "test"
    /\ IF test_model(model)
       THEN /\ out' = Append(out, "prediction succeeded")
            /\ pc' = "save"
       ELSE /\ out' = out \o <<"test failed", "recovered with problems">>
            /\ pc' = "done"
    /\ UNCHANGED <<h5file, weights, model, test_passes, fs_writes, cv, pv, dashVars>>

\* model.save(MODELSPATH + 'model_fixed.h5')
MainSave ==
    /\ pc = "save"
    /\ fs_writes' = Append(fs_writes, "model_fixed.h5")
    /\ out' = Append(out, "model recovered")
    /\ pc' = "done"
    /\ UNCHANGED <<h5file, weights, model, test_passes, cv, pv, dashVars>>

Next ==
    \/ MainCheckPath
    \/ MainExtract
    \/ MainRebuild
    \/ MainTest
    \/ MainSave

Spec == Init /\ [][Next]_vars

(***************************************************************************)
(* Claims about the repair run                                              *)
(***************************************************************************)
Range(seq) == {seq[k] : k \in 1..Len(seq)}

Diagnostics == {"file not found", "extraction failed, aborting",
                "recovered with problems"}

SmokeTestFailed == model.status = "returned" /\ ~test_passes

\* C1: model_fixed.h5 is written only after the smoke-test forward pass on
\* the rebuilt model has succeeded; when model.h5 is missing, extraction
\* returns None or the smoke test fails, the run ends with a diagnostic
\* message and model_fixed.h5 is never written.
C1_SavedOnlyAfterSmokeTest ==
    /\ (fs_writes # <<>>) =>
          /\ h5file.exists /\ weights.kind = "dict"
          /\ model.status = "returned" /\ test_passes
          /\ "prediction succeeded" \in Range(out)
    /\ (pc \in {"test", "save"}) => (h5file.exists /\ weights.kind = "dict")
    /\ (pc = "save") => test_passes
    /\ (pc = "done" /\ (~h5file.exists \/ weights.kind = "None" \/ SmokeTestFailed)) =>
          /\ fs_writes = <<>>
          /\ out # <<>> /\ out[Len(out)] \in Diagnostics

C1_Witness ==
    /\ pc = "done" /\ test_passes
    /\ fs_writes = <<"model_fixed.h5">>
    /\ model.weights_injected >= 1

RebuildRan == model.status \in {"returned", "ValueError", "IndexError"}

\* no extracted tensor name matches any candidate fragment of the layer
Unmatched(layer, weights_dict) ==
    LET candidates == layer_mapping(Layers[layer].name) IN
    \A c \in 1..Len(candidates), k \in 1..Len(weights_dict) :
        ~Matches(candidates[c], weights_dict[k].name)

SetWeightsCalls(layer) ==
    {k \in 1..Len(model.log) :
        /\ model.log[k].ev \in {"set_weights", "set_weights_rejected"}
        /\ model.log[k].layer = layer}

InjectedLayers == {i \in LayerIds : model.layer_weights[i] # InitWeights}

C5_RejectedTensorIsSkipped ==
    RebuildRan =>
        \A k \in 1..Len(model.log) :
            (model.log[k].ev = "set_weights_rejected") =>
                /\ model.status = "returned"
                /\ k < Len(model.log)
                /\ model.log[k + 1] = Ev("incompatible", model.log[k].layer)
                /\ \/ model.layer_weights[model.log[k].layer] = InitWeights
                   \/ SetWeightsOK(model.log[k].layer,
                                   model.layer_weights[model.log[k].layer])

\* what the layer would be handed for tensor t, when that is accepted
Compatible(layer, t) ==
    LET w == PrepareWeights(t) IN
    /\ ndim(t) = 5 => w.kind = "converted"
    /\ SetWeightsOK(layer, IF ndim(t) = 5 THEN w.value ELSE t)

\* (candidate, key) pairs of a layer whose tensor is name-matched and
\* shape-compatible
Hits(layer, weights_dict) ==
    LET candidates == layer_mapping(Layers[layer].name) IN
    {p \in (1..Len(candidates)) \X (1..Len(weights_dict)) :
        /\ Matches(candidates[p[1]], weights_dict[p[2]].name)
        /\ Compatible(layer, weights_dict[p[2]].value)}

FirstHit(layer, weights_dict) ==
    CHOOSE p \in Hits(layer, weights_dict) :
        \A q \in Hits(layer, weights_dict) :
            p[1] < q[1] \/ (p[1] = q[1] /\ p[2] <= q[2])

\* C6: each layer is injected with the first tensor, in (candidate order,
\* then extracted-tensor order), whose name contains the candidate and whose
\* shape is compatible with the layer; it receives at most one injection,
\* and receives one whenever such a tensor exists.
C6_FirstCompatibleMatchInjected ==
    RebuildRan =>
        \A i \in LayerIds :
            /\ Cardinality({k \in SetWeightsCalls(i) :
                               model.log[k].ev = "set_weights"}) <= 1
            /\ IF Hits(i, weights.items) = {}
               THEN model.layer_weights[i] = InitWeights
               ELSE LET t == weights.items[FirstHit(i, weights.items)[2]].value IN
                    /\ model.source[i] = FirstHit(i, weights.items)[2]
                    /\ model.layer_weights[i] =
                          (IF ndim(t) = 5 THEN PrepareWeights(t).value ELSE t)

\* C11: the repair run's only persisted effect is the corrected model file:
\* no step changes the source file model.h5 (it is opened read-only), and
\* after every step at most one file has been written, model_fixed.h5, at
\* most once.
C11_OnlyFixedModelWritten ==
    [][/\ h5file' = h5file
       /\ Len(fs_writes') <= 1
       /\ Range(fs_writes') \subseteq {"model_fixed.h5"}]_vars

C11_Witness ==
    /\ pc = "done"
    /\ Len(fs_writes) = 1
    /\ h5file.exists /\ h5file.nodes # <<>>
    /\ weights.kind = "dict" /\ weights.items # <<>>

\* positions of the dataset nodes of the file
Datasets(f) == {k \in 1..Len(f.nodes) : f.nodes[k].kind = "dataset"}

\* h5py raises while the file is opened or one of its nodes is visited
TraversalFails(f) == f.fail_at \in 0..Len(f.nodes)

\* C15: once extract_weights_from_corrupted_h5 has returned, either the
\* traversal failed somewhere and the result is None, with no partial
\* mapping, or the result is a mapping whose keys are exactly the path names
\* of the dataset nodes of the file, each mapped to that node's array; group
\* nodes are not recorded and the model_config attribute plays no part.
C15_ExtractRecordsEveryDataset ==
    (weights.kind # "unset") =>
        IF TraversalFails(h5file)
        THEN weights = [kind |-> "None"]
        ELSE /\ weights.kind = "dict"
             /\ Len(weights.items) = Cardinality(Datasets(h5file))
             /\ \A k \in Datasets(h5file) :
                    \E j \in 1..Len(weights.items) :
                        /\ weights.items[j].name = h5file.nodes[k].name
                        /\ weights.items[j].value =
                              [shape |-> h5file.nodes[k].shape,
                               base |-> h5file.nodes[k].name,
                               off |-> 0]
             /\ \A j \in 1..Len(weights.items) :
                    \E k \in Datasets(h5file) :
                        weights.items[j].name = h5file.nodes[k].name

C15_Witness ==
    /\ weights.kind = "dict" /\ Len(weights.items) = 2
    /\ Len(h5file.nodes) = 3
    /\ h5file.model_config = "corrupt"

(***************************************************************************)
(* ConvSpec: the conversion step on every small tensor                      *)
(***************************************************************************)
ConvShapes ==
    UNION {[1..n -> 1..MaxDim] : n \in {1, 2, 4}}
    \cup {<<d>> \o s : d \in 1..MaxDepth, s \in [1..4 -> 1..MaxDim]}

ConvInputs == {[shape |-> s, base |-> "raw", off |-> 0] : s \in ConvShapes}

ConvInit ==
    /\ cv \in {[step |-> "input", raw |-> t] : t \in ConvInputs}
    /\ IdleRepair /\ IdlePred /\ IdleDash

ConvStep ==
    /\ cv.step = "input"
    /\ cv' = [step |-> "done", raw |-> cv.raw, res |-> PrepareWeights(cv.raw)]
    /\ UNCHANGED <<repairVars, pv, dashVars>>

ConvNext == ConvStep

ConvSpec == ConvInit /\ [][ConvNext]_vars

\* C2: a matched tensor of shape (3, h, w, in, out) is converted to a tensor
\* of shape (h, w, in, out) whose every element is the input's element at
\* depth index 1, the middle-depth slice.
C2_MiddleSliceOfDepth3 ==
    (cv.step = "done" /\ ndim(cv.raw) = 5 /\ cv.raw.shape[1] = 3) =>
        /\ cv.res.kind = "converted"
        /\ cv.res.value.shape = Tail(cv.raw.shape)
        /\ \A idx \in Indices(Tail(cv.raw.shape)) :
               At(cv.res.value, idx) = At(cv.raw, <<1>> \o idx)

C2_Witness ==
    /\ cv.step = "done" /\ ndim(cv.raw) = 5
    /\ cv.raw.shape = <<3, 2, 2, 1, 2>>
    /\ cv.res.kind = "converted"

\* C3: whatever the depth d >= 1 of a 5-D matched tensor, the conversion
\* yields the 4-D slice at the middle depth index floor(d/2).
C3_MiddleSliceAnyDepth ==
    (cv.step = "done" /\ ndim(cv.raw) = 5) =>
        /\ cv.res.kind = "converted"
        /\ cv.res.value.shape = Tail(cv.raw.shape)
        /\ \A idx \in Indices(Tail(cv.raw.shape)) :
               At(cv.res.value, idx) = At(cv.raw, <<cv.raw.shape[1] \div 2>> \o idx)

(***************************************************************************)
(* app.py: predict_skin_lesion, format_prediction_results and the headline. *)
(* A model output is a fixed-point number in units of 1/100000; a           *)
(* probability (percent, two decimals) is in units of 0.01 percent.         *)
(***************************************************************************)
\* (the labels are written without their diacritics)
LESION_TYPE_DICT ==
    (0 :> "Queratoses actinicas") @@ (1 :> "Carcinoma basocelular") @@
    (2 :> "Lesoes benignas tipo queratose") @@ (3 :> "Dermatofibroma") @@
    (4 :> "Nevos melanociticos") @@ (5 :> "Melanoma") @@
    (6 :> "Lesoes vasculares")

\* np.round: n / d rounded to the nearest integer, halves to the even one
RoundHalfEven(n, d) ==
    LET q == n \div d
        r == n % d
    IN IF 2 * r < d THEN q
       ELSE IF 2 * r > d THEN q + 1
       ELSE IF q % 2 = 0 THEN q ELSE q + 1

\* np.round(predictions[0] * 100, 2).tolist()
Probabilities(predictions) ==
    [i \in 1..Len(predictions) |-> RoundHalfEven(predictions[i], 10)]

ArgMax_min(v) ==
    (CHOOSE i \in 1..Len(v) :
        /\ \A j \in 1..Len(v) : v[i] <= v[j]
        /\ \A j \in 1..(i - 1) : v[j] > v[i]) - 1

\* np.argmax: the 0-based index of the first largest entry
ArgMax(v) ==
    (CHOOSE i \in 1..Len(v) :
        /\ \A j \in 1..Len(v) : v[i] >= v[j]
        /\ \A j \in 1..(i - 1) : v[j] < v[i]) - 1

\* max(probabilities)
RECURSIVE Max(_)
Max(v) ==
    IF Len(v) = 1 THEN v[1]
    ELSE LET m == Max(Tail(v)) IN IF Head(v) >= m THEN Head(v) ELSE m

\* the body of predict_skin_lesion's try, given model.predict's output:
\* (probabilities, predicted_class), predicted_class an array of one index
predict_skin_lesion(predictions) ==
    [probabilities |-> Probabilities(predictions),
     predicted_class |-> <<ArgMax(predictions)>>]

\* rows (Classe, Probabilidade) ordered by Probabilidade, largest first;
\* rows of equal probability keep their class order
RECURSIVE InsertRow(_, _)
InsertRow(row, sorted) ==
    IF sorted = <<>> THEN <<row>>
    ELSE IF row.Probabilidade >= Head(sorted).Probabilidade
         THEN <<row>> \o sorted
         ELSE <<Head(sorted)>> \o InsertRow(row, Tail(sorted))

\* the table left in class order
SortRows_unsorted(rows) == rows

RECURSIVE SortRows(_)
SortRows(rows) ==
    IF rows = <<>> THEN <<>>
    ELSE InsertRow(Head(rows), SortRows(Tail(rows)))

\* format_prediction_results: the table, or None when the DataFrame cannot
\* be built over index 0..6
format_prediction_results(probabilities) ==
    IF Len(probabilities) # 7 THEN [kind |-> "None"]
    ELSE [kind |-> "table",
          rows |-> SortRows([i \in 1..7 |->
                      [Classe |-> LESION_TYPE_DICT[i - 1],
                       Probabilidade |-> probabilities[i]]])]

\* predicted_lesion = LESION_TYPE_DICT[predicted_class[0]]; max_prob = max(probabilities)
Headline(probabilities, predicted_class) ==
    [predicted_lesion |-> LESION_TYPE_DICT[predicted_class[1]],
     max_prob |-> Max(probabilities)]

(***************************************************************************)
(* PredSpec: the post-processing on every small model output                *)
(***************************************************************************)
PredInputs == [1..7 -> {5 * k : k \in 0..MaxRaw}]

PredInit ==
    /\ pv \in {[step |-> "input", predictions |-> v] : v \in PredInputs}
    /\ IdleRepair /\ IdleConv /\ IdleDash

PredPredict ==
    /\ pv.step = "input"
    /\ pv' = [step |-> "predicted", predictions |-> pv.predictions,
              out |-> predict_skin_lesion(pv.predictions)]
    /\ UNCHANGED <<repairVars, cv, dashVars>>

PredRender ==
    /\ pv.step = "predicted"
    /\ pv' = [step |-> "rendered", predictions |-> pv.predictions,
              out |-> pv.out,
              result |-> format_prediction_results(pv.out.probabilities),
              headline |-> Headline(pv.out.probabilities, pv.out.predicted_class)]
    /\ UNCHANGED <<repairVars, cv, dashVars>>

PredNext == PredPredict \/ PredRender

PredSpec == PredInit /\ [][PredNext]_vars

\* C9: the headline label is LESION_TYPE_DICT at the index of the largest
\* model output, an index in 0..6; the headline probability is the
\* probability the table records for that label and no entry exceeds it.
C9_HeadlineIsArgMax ==
    (pv.step = "rendered") =>
        LET c == pv.out.predicted_class[1] IN
        /\ c \in DOMAIN LESION_TYPE_DICT
        /\ \A j \in 1..7 : pv.predictions[c + 1] >= pv.predictions[j]
        /\ pv.headline.predicted_lesion = LESION_TYPE_DICT[c]
        /\ pv.headline.max_prob = pv.out.probabilities[c + 1]
        /\ \A j \in 1..7 : pv.headline.max_prob >= pv.out.probabilities[j]
        /\ pv.result.kind = "table"
        /\ \E k \in 1..Len(pv.result.rows) :
              pv.result.rows[k] = [Classe |-> pv.headline.predicted_lesion,
                                   Probabilidade |-> pv.headline.max_prob]
        /\ \A k \in 1..Len(pv.result.rows) :
              (pv.result.rows[k].Classe = pv.headline.predicted_lesion) =>
                  pv.result.rows[k].Probabilidade = pv.headline.max_prob

C9_Witness ==
    /\ pv.step = "rendered"
    /\ pv.predictions = <<0, 5, 15, 10, 15, 0, 5>>
    /\ pv.headline = [predicted_lesion |-> "Lesoes benignas tipo queratose",
                      max_prob |-> 2]

(***************************************************************************)
(* FmtSpec: format_prediction_results on every small list                   *)
(***************************************************************************)
\* lists of 7 entries, and shorter and longer ones
FmtInputs ==
    [1..7 -> 0..MaxRaw]
    \cup UNION {[1..n -> {0, MaxRaw}] : n \in {0, 6, 8}}

FmtInit ==
    /\ pv \in {[step |-> "fmt_input", probabilities |-> v] : v \in FmtInputs}
    /\ IdleRepair /\ IdleConv /\ IdleDash

FmtFormat ==
    /\ pv.step = "fmt_input"
    /\ pv' = [step |-> "formatted", probabilities |-> pv.probabilities,
              result |-> format_prediction_results(pv.probabilities)]
    /\ UNCHANGED <<repairVars, cv, dashVars>>

FmtNext == FmtFormat

FmtSpec == FmtInit /\ [][FmtNext]_vars

\* C13: format_prediction_results of a list of 7 probabilities is a table of
\* exactly 7 rows in which every label LESION_TYPE_DICT[i], i in 0..6, occurs
\* exactly once, with probabilities[i], and the rows are in non-increasing
\* order of probability; of a list it cannot put over the index 0..6 it is
\* None.
C13_TableIsSortedPermutation ==
    (pv.step = "formatted") =>
        IF Len(pv.probabilities) = 7
        THEN LET rows == pv.result.rows IN
             /\ pv.result.kind = "table"
             /\ Len(rows) = 7
             /\ \A i \in 0..6 :
                    /\ Cardinality({k \in 1..Len(rows) :
                           rows[k].Classe = LESION_TYPE_DICT[i]}) = 1
                    /\ \A k \in 1..Len(rows) :
                           (rows[k].Classe = LESION_TYPE_DICT[i]) =>
                               rows[k].Probabilidade = pv.probabilities[i + 1]
             /\ \A k \in 1..(Len(rows) - 1) :
                    rows[k].Probabilidade >= rows[k + 1].Probabilidade
        ELSE pv.result = [kind |-> "None"]

C13_Witness ==
    /\ pv.step = "formatted"
    /\ pv.probabilities = <<0, 1, 0, 2, 1, 0, 2>>
    /\ pv.result.kind = "table"
    /\ pv.result.rows[1].Probabilidade = 2
    /\ pv.result.rows[7].Probabilidade = 0

(***************************************************************************)
(* TierSpec: the confidence tier of every top probability.  max_prob is in  *)
(* hundredths of a percent, so 70 is 7000 and 40 is 4000; the labels are    *)
(* 'Alta', 'Média', 'Baixa' and the indicators the green, yellow and red    *)
(* circles.                                                                 *)
(***************************************************************************)
sample_confidence_level_ge(max_prob) ==
    IF max_prob >= 7000 THEN "Alta"
    ELSE IF max_prob >= 4000 THEN "Media" ELSE "Baixa"

\* sample_data_page: confidence_level
sample_confidence_level(max_prob) ==
    IF max_prob > 7000 THEN "Alta"
    ELSE IF max_prob > 4000 THEN "Media" ELSE "Baixa"

\* sample_data_page: confidence_emoji
sample_confidence_emoji(max_prob) ==
    IF max_prob > 7000 THEN "green"
    ELSE IF max_prob > 4000 THEN "yellow" ELSE "red"

\* upload_image_page: confidence_level
upload_confidence_level(max_prob) ==
    IF max_prob > 7000 THEN "Alta"
    ELSE IF max_prob > 4000 THEN "Media" ELSE "Baixa"

\* upload_image_page: confidence_emoji
upload_confidence_emoji(max_prob) ==
    IF max_prob > 7000 THEN "green"
    ELSE IF max_prob > 4000 THEN "yellow" ELSE "red"

\* every percentage of two decimals from 0.00 to 100.00
TierInputs == 0..10000

TierInit ==
    /\ pv \in {[step |-> "tier_input", max_prob |-> m] : m \in TierInputs}
    /\ IdleRepair /\ IdleConv /\ IdleDash

TierSamplePage ==
    /\ pv.step = "tier_input"
    /\ pv' = [step |-> "tiered", page |-> "sample", max_prob |-> pv.max_prob,
              confidence_level |-> sample_confidence_level(pv.max_prob),
              confidence_emoji |-> sample_confidence_emoji(pv.max_prob)]
    /\ UNCHANGED <<repairVars, cv, dashVars>>

TierUploadPage ==
    /\ pv.step = "tier_input"
    /\ pv' = [step |-> "tiered", page |-> "upload", max_prob |-> pv.max_prob,
              confidence_level |-> upload_confidence_level(pv.max_prob),
              confidence_emoji |-> upload_confidence_emoji(pv.max_prob)]
    /\ UNCHANGED <<repairVars, cv, dashVars>>

TierNext == TierSamplePage \/ TierUploadPage

TierSpec == TierInit /\ [][TierNext]_vars

TierColour == [t \in {"Alta", "Media", "Baixa"} |->
                  IF t = "Alta" THEN "green"
                  ELSE IF t = "Media" THEN "yellow" ELSE "red"]

\* C14: the tier a page assigns is 'Alta' exactly when max_prob > 70,
\* 'Média' exactly when 40 < max_prob <= 70 and 'Baixa' exactly when
\* max_prob <= 40; the indicator is the tier's colour; and the tier and the
\* indicator are the ones either page assigns to that max_prob.
C14_TierByThresholds ==
    (pv.step = "tiered") =>
        LET m == pv.max_prob
            t == pv.confidence_level
        IN
        /\ t \in {"Alta", "Media", "Baixa"}
        /\ (t = "Alta") <=> (m > 7000)
        /\ (t = "Media") <=> (4000 < m /\ m <= 7000)
        /\ (t = "Baixa") <=> (m <= 4000)
        /\ pv.confidence_emoji = TierColour[t]
        /\ t = sample_confidence_level(m) /\ t = upload_confidence_level(m)
        /\ pv.confidence_emoji = sample_confidence_emoji(m)
        /\ pv.confidence_emoji = upload_confidence_emoji(m)

C14_Witness ==
    /\ pv.step = "tiered" /\ pv.page = "upload"
    /\ pv.max_prob = 7000
    /\ pv.confidence_level = "Media" /\ pv.confidence_emoji = "yellow"

(***************************************************************************)
(* app.py: the dashboard.  Streamlit reruns main() from the top on every    *)
(* interaction; a button is True only in the rerun its click starts; the   *)
(* state of a widget that a rerun does not render is dropped; the results  *)
(* of functions under st.cache_data / st.cache_resource live in the        *)
(* process, keyed by their arguments, and a function that returns normally *)
(* has its return value stored, None included.                              *)
(***************************************************************************)
SAMPLE_PATH == "./data//ISIC_0024312.jpg"
MODEL_PATH == "./models/model_fixed.h5"

\* the files a user may upload, and whether PIL can open them
UploadFiles == {"lesion.jpg", "broken.jpg"}
Opens(file) == file = "lesion.jpg"

\* the arguments preprocess_image is called with
ImageKeys == {SAMPLE_PATH} \cup {f \in UploadFiles : Opens(f)}

\* model.predict(image_array)[0], in units of 1/100000
ModelOutput(key) ==
    IF key = SAMPLE_PATH
    THEN <<500, 1500, 3000, 2000, 85000, 7995, 5>>
    ELSE <<10000, 35000, 5000, 5000, 35000, 9000, 1000>>

\* model_fixed.h5 on disk: absent; not loadable; the 7-class model for
\* (75, 100, 3) inputs; or a model that loads but whose predict raises on
\* such an input
FileStates == {"missing", "corrupt", "valid", "mismatched"}
Loadable == {"valid", "mismatched"}

\* the sample image on disk
ImageStates == {"missing", "corrupt", "valid"}

EmptyCache ==
    [sample |-> "empty",
     model  |-> "empty",
     pre    |-> [k \in ImageKeys |-> "empty"],
     pred   |-> [k \in ImageKeys |-> "empty"]]

\* @st.cache_data load_sample_image(): FileNotFoundError is reported and
\* None returned; any other exception of Image.open leaves the function
st_load_sample_image(c, sample_file) ==
    IF c.sample # "empty"
    THEN [val |-> c.sample, raised |-> FALSE, cache |-> c,
          msgs |-> IF c.sample = "None" THEN {"sample_not_found"} ELSE {},
          reads |-> {}]
    ELSE IF sample_file = "valid"
    THEN [val |-> "image", raised |-> FALSE,
          cache |-> [c EXCEPT !.sample = "image"],
          msgs |-> {}, reads |-> {SAMPLE_PATH}]
    ELSE IF sample_file = "missing"
    THEN [val |-> "None", raised |-> FALSE,
          cache |-> [c EXCEPT !.sample = "None"],
          msgs |-> {"sample_not_found"}, reads |-> {SAMPLE_PATH}]
    ELSE [val |-> "None", raised |-> TRUE, cache |-> c,
          msgs |-> {}, reads |-> {SAMPLE_PATH}]

\* @st.cache_resource load_prediction_model(): every exception of load_model
\* is reported and None returned.  The value is None or the model the file
\* held when it was loaded.
st_load_prediction_model(c, model_file) ==
    IF c.model # "empty"
    THEN [val |-> c.model, cache |-> c,
          msgs |-> IF c.model = "None" THEN {"model_load_error"}
                                       ELSE {"model_loaded"},
          reads |-> {}]
    ELSE IF model_file \in Loadable
    THEN [val |-> model_file, cache |-> [c EXCEPT !.model = model_file],
          msgs |-> {"model_loaded"}, reads |-> {MODEL_PATH}]
    ELSE [val |-> "None", cache |-> [c EXCEPT !.model = "None"],
          msgs |-> {"model_load_error"}, reads |-> {MODEL_PATH}]

st_preprocess_image_saving(c, image_path, opens) ==
    [val |-> IF opens THEN "tensor" ELSE "None",
     cache |-> [c EXCEPT !.pre[image_path] = IF opens THEN "tensor" ELSE "None"],
     msgs |-> IF opens THEN {} ELSE {"preprocess_error"},
     reads |-> {image_path} \cap {SAMPLE_PATH},
     writes |-> {image_path} \ {SAMPLE_PATH}]

\* @st.cache_data preprocess_image(image_path): every exception is reported
\* and None returned.  A path is read from disk, an upload from memory.
st_preprocess_image(c, image_path, opens) ==
    IF c.pre[image_path] # "empty"
    THEN [val |-> c.pre[image_path], cache |-> c,
          msgs |-> IF c.pre[image_path] = "None" THEN {"preprocess_error"} ELSE {},
          reads |-> {}, writes |-> {}]
    ELSE [val |-> IF opens THEN "tensor" ELSE "None",
          cache |-> [c EXCEPT !.pre[image_path] = IF opens THEN "tensor" ELSE "None"],
          msgs |-> IF opens THEN {} ELSE {"preprocess_error"},
          reads |-> {image_path} \cap {SAMPLE_PATH},
          writes |-> {}]

\* a predict_skin_lesion whose except branch returns (None, None) without
\* st.error
st_predict_skin_lesion_silent(c, key, loaded_model) ==
    LET predict_ok == loaded_model = "valid" IN
    IF c.pred[key] # "empty"
    THEN [val |-> c.pred[key], cache |-> c, msgs |-> {}]
    ELSE [val |-> IF predict_ok THEN "ok" ELSE "None",
          cache |-> [c EXCEPT !.pred[key] = IF predict_ok THEN "ok" ELSE "None"],
          msgs |-> {}]

\* @st.cache_data predict_skin_lesion(image_array, model): every exception
\* of model.predict is reported and (None, None) returned
st_predict_skin_lesion(c, key, loaded_model) ==
    LET predict_ok == loaded_model = "valid" IN
    IF c.pred[key] # "empty"
    THEN [val |-> c.pred[key], cache |-> c,
          msgs |-> IF c.pred[key] = "None" THEN {"predict_error"} ELSE {}]
    ELSE [val |-> IF predict_ok THEN "ok" ELSE "None",
          cache |-> [c EXCEPT !.pred[key] = IF predict_ok THEN "ok" ELSE "None"],
          msgs |-> IF predict_ok THEN {} ELSE {"predict_error"}]

NoResult == [kind |-> "none"]

\* what a click that got as far as `if probabilities is not None` renders
Rendered(key) ==
    LET p == predict_skin_lesion(ModelOutput(key)) IN
    [kind |-> "result",
     probabilities |-> p.probabilities,
     headline |-> Headline(p.probabilities, p.predicted_class),
     table |-> format_prediction_results(p.probabilities)]

\* sample_data_page, body of `if st.button(...)`: model, then preprocessing,
\* then prediction
AnalyzeSample(c, model_file, sample_file) ==
    LET m == st_load_prediction_model(c, model_file) IN
    IF m.val = "None"
    THEN [cache |-> m.cache, msgs |-> m.msgs, reads |-> m.reads, writes |-> {},
          model |-> m.val, pre |-> "not called", pred |-> "not called",
          result |-> NoResult]
    ELSE
    LET x == st_preprocess_image(m.cache, SAMPLE_PATH, sample_file = "valid") IN
    IF x.val = "None"
    THEN [cache |-> x.cache, msgs |-> m.msgs \cup x.msgs,
          reads |-> m.reads \cup x.reads, writes |-> x.writes,
          model |-> m.val, pre |-> x.val, pred |-> "not called",
          result |-> NoResult]
    ELSE
    LET y == st_predict_skin_lesion(x.cache, SAMPLE_PATH, m.val) IN
    [cache |-> y.cache,
     msgs |-> m.msgs \cup x.msgs \cup y.msgs \cup
              (IF y.val = "ok" THEN {"headline", "table", "chart", "warning"} ELSE {}),
     reads |-> m.reads \cup x.reads, writes |-> x.writes,
     model |-> m.val, pre |-> x.val, pred |-> y.val,
     result |-> IF y.val = "ok" THEN Rendered(SAMPLE_PATH) ELSE NoResult]

\* upload_image_page, body of `if st.button(...)`: preprocessing, then model,
\* then prediction
AnalyzeUpload(c, model_file, file) ==
    LET x == st_preprocess_image(c, file, Opens(file)) IN
    IF x.val = "None"
    THEN [cache |-> x.cache, msgs |-> x.msgs, reads |-> x.reads,
          writes |-> x.writes,
          model |-> "not called", pre |-> x.val, pred |-> "not called",
          result |-> NoResult]
    ELSE
    LET m == st_load_prediction_model(x.cache, model_file) IN
    IF m.val = "None"
    THEN [cache |-> m.cache, msgs |-> x.msgs \cup m.msgs,
          reads |-> x.reads \cup m.reads, writes |-> x.writes,
          model |-> m.val, pre |-> x.val, pred |-> "not called",
          result |-> NoResult]
    ELSE
    LET y == st_predict_skin_lesion(m.cache, file, m.val) IN
    [cache |-> y.cache,
     msgs |-> m.msgs \cup x.msgs \cup y.msgs \cup
              (IF y.val = "ok" THEN {"headline", "table", "chart", "warning"} ELSE {}),
     reads |-> m.reads \cup x.reads, writes |-> x.writes,
     model |-> m.val, pre |-> x.val, pred |-> y.val,
     result |-> IF y.val = "ok" THEN Rendered(file) ELSE NoResult]

NoAnalysis(c) ==
    [cache |-> c, msgs |-> {}, reads |-> {}, writes |-> {},
     model |-> "not called", pre |-> "not called", pred |-> "not called",
     result |-> NoResult]

\* sample_data_page()
sample_data_page(c, cb, clicked, model_file, sample_file) ==
    IF ~cb THEN [NoAnalysis(c) EXCEPT !.msgs = {"checkbox"}]
    ELSE
    LET img == st_load_sample_image(c, sample_file) IN
    IF img.raised
    THEN [NoAnalysis(c) EXCEPT !.msgs = {"checkbox", "exception"},
                               !.reads = img.reads]
    ELSE IF img.val # "image"
    THEN [NoAnalysis(img.cache) EXCEPT !.msgs = {"checkbox"} \cup img.msgs,
                                       !.reads = img.reads]
    ELSE
    LET a == IF clicked
             THEN AnalyzeSample(img.cache, model_file, sample_file)
             ELSE NoAnalysis(img.cache)
    IN [a EXCEPT !.msgs = a.msgs \cup {"checkbox", "sample_image", "analyze_button"},
                 !.reads = a.reads \cup img.reads]

\* upload_image_page()
upload_image_page(c, file, clicked, model_file) ==
    IF file = "None"
    THEN [NoAnalysis(c) EXCEPT !.msgs = {"file_uploader", "upload_hint"}]
    ELSE IF ~Opens(file)
    THEN [NoAnalysis(c) EXCEPT !.msgs = {"file_uploader", "processing_error"}]
    ELSE
    LET a == IF clicked THEN AnalyzeUpload(c, model_file, file)
                        ELSE NoAnalysis(c)
    IN [a EXCEPT !.msgs = a.msgs \cup {"file_uploader", "upload_preview",
                                       "analyze_button"}]

\* main(): one rerun of the script
RunScript(p, cb, file, clicked) ==
    LET r == IF p = "sample"
             THEN sample_data_page(cache, cb, clicked, modelFile, sampleFile)
             ELSE upload_image_page(cache, file, clicked, modelFile)
    IN
    /\ page' = p
    /\ checkbox' = cb
    /\ uploaded_file' = file
    /\ cache' = r.cache
    /\ shown' = r.msgs
    /\ disk' = [reads |-> disk.reads \cup r.reads,
                writes |-> disk.writes \cup r.writes]
    /\ req' = [clicked |-> clicked, page |-> p,
               model_valid |-> modelFile = "valid",
               image_valid |-> IF p = "sample" THEN sampleFile = "valid"
                                               ELSE file # "None" /\ Opens(file),
               model |-> r.model, pre |-> r.pre, pred |-> r.pred,
               result |-> r.result]
    /\ UNCHANGED <<modelFile, sampleFile, repairVars, cv, pv>>

DashInit ==
    /\ page = "sample" /\ checkbox = FALSE /\ uploaded_file = "None"
    /\ modelFile \in FileStates /\ sampleFile \in ImageStates
    /\ cache = EmptyCache
    /\ shown = {"checkbox"}
    /\ req = [clicked |-> FALSE, page |-> "sample",
              model_valid |-> modelFile = "valid",
              image_valid |-> sampleFile = "valid",
              model |-> "not called", pre |-> "not called", pred |-> "not called",
              result |-> NoResult]
    /\ disk = [reads |-> {}, writes |-> {}]
    /\ IdleRepair /\ IdleConv /\ IdlePred

\* the sidebar selectbox
SelectPage ==
    \E p \in {"sample", "upload"} :
        /\ p # page
        /\ RunScript(p, FALSE, "None", FALSE)

\* the sample page's checkbox
ToggleCheckbox ==
    /\ "checkbox" \in shown
    /\ RunScript(page, ~checkbox, uploaded_file, FALSE)

\* the upload page's file uploader: a file is chosen or removed
ChooseFile ==
    \E f \in UploadFiles \cup {"None"} :
        /\ "file_uploader" \in shown
        /\ f # uploaded_file
        /\ RunScript(page, checkbox, f, FALSE)

\* a click on the page's analysis button
ClickAnalyze ==
    /\ "analyze_button" \in shown
    /\ RunScript(page, checkbox, uploaded_file, TRUE)

\* model_fixed.h5 is created, replaced or removed by the operator
ModelFileChanges ==
    \E f \in FileStates :
        /\ f # modelFile
        /\ modelFile' = f
        /\ UNCHANGED <<page, checkbox, uploaded_file, sampleFile, cache, shown,
                       req, disk, repairVars, cv, pv>>

\* the sample image is created, replaced or removed by the operator
SampleFileChanges ==
    \E f \in ImageStates :
        /\ f # sampleFile
        /\ sampleFile' = f
        /\ UNCHANGED <<page, checkbox, uploaded_file, modelFile, cache, shown,
                       req, disk, repairVars, cv, pv>>

DashNext ==
    \/ SelectPage
    \/ ToggleCheckbox
    \/ ChooseFile
    \/ ClickAnalyze
    \/ ModelFileChanges
    \/ SampleFileChanges

DashSpec == DashInit /\ [][DashNext]_vars

(***************************************************************************)
(* Claims about the dashboard                                               *)
(***************************************************************************)
RECURSIVE Sum(_)
Sum(v) == IF v = <<>> THEN 0 ELSE Head(v) + Sum(Tail(v))

Labels == {LESION_TYPE_DICT[i] : i \in DOMAIN LESION_TYPE_DICT}

\* C7: a failed analysis request leaves no trace in the process: a request
\* issued when the model file and the image are valid loads the model and
\* renders a result, whatever failed before.
C7_FailedRequestLeavesNoTrace ==
    (req.clicked /\ req.model_valid /\ req.image_valid) =>
        /\ req.model = "valid"
        /\ req.result.kind = "result"
        /\ "headline" \in shown

\* C8: when load_prediction_model yields no model, the analysis request
\* still renders a prediction: a probability vector with one entry per
\* label that sums to one (100.00 percent), and a headline label of the
\* label set.
C8_NoModelStillPredicts ==
    (req.clicked /\ req.model = "None") =>
        /\ req.result.kind = "result"
        /\ Len(req.result.probabilities) = Cardinality(Labels)
        /\ Sum(req.result.probabilities) = 10000
        /\ req.result.headline.predicted_lesion \in Labels
        /\ "headline" \in shown

\* C10: no dashboard operation writes the uploaded image, or anything else,
\* to disk; the only files accessed are the sample image and the model
\* file, both read.
C10_NothingWrittenToDisk ==
    /\ disk.writes = {}
    /\ disk.reads \subseteq {SAMPLE_PATH, MODEL_PATH}

C10_Witness ==
    /\ req.clicked /\ req.page = "upload"
    /\ uploaded_file = "lesion.jpg"
    /\ req.pre = "tensor"
    /\ "headline" \in shown
    /\ disk.reads = {SAMPLE_PATH, MODEL_PATH}
    /\ disk.writes = {}

ResultElements == {"headline", "table", "chart"}

StageErrors == {"model_load_error", "preprocess_error", "predict_error"}

\* C12: in the rerun of an analysis click, on either page, prediction is
\* invoked only when preprocessing returned a tensor and a model was loaded
\* (the later stage of a page is not entered when its earlier one returned
\* None); the result with its headline, table and chart is produced exactly
\* when prediction returned probabilities; and when model loading,
\* preprocessing or prediction returned None that stage's error message is
\* on the page and no headline, table or chart is.  A rerun without a click
\* runs no stage.
C12_StagesGuardedAndFailuresReported ==
    /\ ~req.clicked =>
          /\ req.model = "not called" /\ req.pre = "not called"
          /\ req.pred = "not called" /\ req.result = NoResult
          /\ shown \cap (ResultElements \cup StageErrors) = {}
    /\ req.clicked =>
          /\ (req.pred # "not called") =>
                (req.pre = "tensor" /\ req.model \in Loadable)
          /\ (req.page = "sample" /\ req.pre # "not called") =>
                req.model \in Loadable
          /\ (req.page = "upload" /\ req.model # "not called") =>
                req.pre = "tensor"
          /\ (req.result.kind = "result") <=> (req.pred = "ok")
          /\ IF req.pred = "ok"
             THEN ResultElements \subseteq shown
             ELSE ResultElements \cap shown = {}
          /\ (req.model = "None") => ("model_load_error" \in shown)
          /\ (req.pre = "None") => ("preprocess_error" \in shown)
          /\ (req.pred = "None") => ("predict_error" \in shown)
          /\ (req.pred # "ok") => (shown \cap StageErrors # {})

C12_Witness ==
    /\ req.clicked /\ req.page = "upload"
    /\ req.pre = "tensor" /\ req.model = "mismatched" /\ req.pred = "None"
    /\ "predict_error" \in shown /\ "headline" \notin shown

====
